---- MODULE Spec2Model ----
(***************************************************************************)
(* Model of programs/pyth-demo/src/lib.rs: the read_price instruction.     *)
(*                                                                         *)
(* read_price decodes the configured feed id, asks the price-update        *)
(* account for an observation no older than MAX_AGE_SECS, rejects a zero   *)
(* price, bounds conf * 10000 / |price| by MAX_CONF_RATIO_BPS in u128      *)
(* arithmetic and logs the raw observation.                                *)
(*                                                                         *)
(* TLC's integers are 32 bits wide, so the i64 / u64 / u128 values of the  *)
(* program are modelled by their machine representation: little-endian     *)
(* sequences of 16-bit words (4 words for i64 and u64, 8 for u128), with   *)
(* the arithmetic done word by word at the width the code names.           *)
(***************************************************************************)
EXTENDS Integers, Sequences, FiniteSets

(***************************************************************************)
(* Program constants (lib.rs lines 6-8).                                   *)
(***************************************************************************)
\* a maximum age of an hour
MAX_AGE_SECS_HOUR == 60 * 60

MAX_AGE_SECS == 60

MAX_CONF_RATIO_BPS == 200

FEED_ID_HEX ==
    << "0", "x", "f", "f", "6", "1", "4", "9", "1", "a", "9",
       "3", "1", "1", "1", "2", "d", "d", "f", "1", "b", "d",
       "8", "1", "4", "7", "c", "d", "1", "b", "6", "4", "1",
       "3", "7", "5", "f", "7", "9", "f", "5", "8", "2", "5",
       "1", "2", "6", "d", "6", "6", "5", "4", "8", "0", "8",
       "7", "4", "6", "3", "4", "f", "d", "0", "a", "c", "e" >>

(***************************************************************************)
(* Bound of the model: the small prices are -MaxSmall..MaxSmall and the    *)
(* small confidences 0..MaxSmall; the boundary values of the 64-bit types  *)
(* and of the 200 bps cap are added to them below.                         *)
(***************************************************************************)
MaxSmall == 2

(***************************************************************************)
(* Fixed-width integers as little-endian sequences of 16-bit words.        *)
(***************************************************************************)
Zeros(n) == [i \in 1..n |-> 0]

IsZero(x) == \A i \in 1..Len(x) : x[i] = 0

RECURSIVE ToWords(_, _)
\* the n-word little-endian representation of the natural number v
ToWords(v, n) ==
    IF n = 0 THEN << >> ELSE << v % 65536 >> \o ToWords(v \div 65536, n - 1)

\* the element of a one-element set. TLC evaluates the value a variable is
\* bound to in { e(v) : v \in {x} } once, where a LET definition is evaluated
\* again in every place that uses it
Only(S) == CHOOSE v \in S : TRUE

RECURSIVE MulAdd(_, _, _)
\* x * k + carry at the width of x: the wrapped value and the carry out of it
MulAdd(x, k, carry) ==
    IF Len(x) = 0
    THEN [val |-> << >>, carry |-> carry]
    ELSE Only({ Only({ [val |-> << t % 65536 >> \o rest.val, carry |-> rest.carry] :
                         rest \in {MulAdd(tl, k, t \div 65536)} }) :
                  t \in {Head(x) * k + carry}, tl \in {Tail(x)} })

RECURSIVE DivSmall(_, _, _)
\* x divided by the small number k, from the most significant word down
DivSmall(x, k, rem) ==
    IF Len(x) = 0
    THEN [q |-> << >>, r |-> rem]
    ELSE Only({ Only({ [q |-> Append(rest.q, t \div k), r |-> rest.r] :
                         rest \in {DivSmall(lo, k, t % k)} }) :
                  t \in {rem * 65536 + x[Len(x)]},
                  lo \in {SubSeq(x, 1, Len(x) - 1)} })

\* a < b and a >= b for two values of the same width: the most significant
\* word in which they differ decides
Less(a, b) ==
    LET D == {i \in 1..Len(a) : a[i] # b[i]}
    IN  /\ D # {}
        /\ LET m == CHOOSE i \in D : \A j \in D : j <= i
           IN  a[m] < b[m]

GreaterEq(a, b) == ~Less(a, b)

\* a - b at the width of a, for a >= b: word i borrows from word i + 1 when
\* the words below and at i of a are less than those of b
Sub(a, b) ==
    LET borrow(i) == IF Less(SubSeq(a, 1, i), SubSeq(b, 1, i)) THEN 1 ELSE 0
    IN  SubSeq([i \in 1..Len(a) |->
                   (a[i] - b[i] - borrow(i - 1) + 65536) % 65536], 1, Len(a))

\* x shifted left by one bit, b shifted in, at the width of x
Shl1(x, b) ==
    SubSeq([i \in 1..Len(x) |->
               (2 * x[i] + (IF i = 1 THEN b ELSE x[i - 1] \div 32768)) % 65536],
           1, Len(x))

(***************************************************************************)
(* The integer operations read_price uses (lib.rs lines 26-31).            *)
(***************************************************************************)
\* the sign bit of an i64
is_negative(x) == x[4] >= 32768

\* two's complement negation at the width of x: !x + 1, wrapping
wrapping_neg(x) == MulAdd([i \in 1..Len(x) |-> 65535 - x[i]], 1, 1).val

\* `p.price as u64`: the bit pattern, not the magnitude
cast_unsigned(x) == x

\* i64::unsigned_abs: the magnitude as a u64; the minimum i64 gives 2^63
unsigned_abs(x) == IF is_negative(x) THEN wrapping_neg(x) ELSE x

\* no widening: the arithmetic stays at 64 bits
u64_keep(x) == x

\* u128::from(u64) and `u64 as u128`: zero extension to 8 words
u128_from(x) == x \o Zeros(4)

\* u128 * small constant: the wrapped 8-word product and the carry out of it
u128_mul(x, k) == MulAdd(x, k, 0)

\* one step of binary long division: bit b of the dividend is brought down
\* into the remainder st.r, and bit j of the quotient word st.qb is found
u128_div_step(st, b, d, j) ==
    Only({ IF GreaterEq(r2, d)
           THEN [qb |-> st.qb + 2 ^ j, r |-> Sub(r2, d)]
           ELSE [qb |-> st.qb, r |-> r2] :
             r2 \in {Shl1(st.r, b)} })

\* bit j (0 = the least significant) of the word w
BitOf(w, j) == (w \div (2 ^ j)) % 2

\* four steps of the division: bits j + 3 .. j of the dividend word nb
u128_div_nibble(st, nb, d, j) ==
    CHOOSE s4 \in
        { u128_div_step(s3, BitOf(nb, j), d, j) :
            s3 \in { u128_div_step(s2, BitOf(nb, j + 1), d, j + 1) :
              s2 \in { u128_div_step(s1, BitOf(nb, j + 2), d, j + 2) :
                s1 \in { u128_div_step(st, BitOf(nb, j + 3), d, j + 3) } } } } :
        TRUE

RECURSIVE u128_div_bits(_, _, _, _)
\* binary long division over one word nb of the dividend: the remainder r
\* after bits 15 .. j of nb were brought down, and the quotient bits found
u128_div_bits(r, nb, d, j) ==
    IF j = 16
    THEN [qb |-> 0, r |-> r]
    ELSE CHOOSE st \in { u128_div_nibble(prev, nb, d, j) :
                           prev \in {u128_div_bits(r, nb, d, j + 4)} } : TRUE

RECURSIVE u128_div_words(_, _, _)
\* the quotient words and the remainder after words 8 .. i of n
u128_div_words(n, d, i) ==
    IF i > Len(n)
    THEN [q |-> << >>, r |-> Zeros(Len(n))]
    ELSE CHOOSE st \in { Only({ [q |-> << s.qb >> \o prev.q, r |-> s.r] :
                                  s \in {u128_div_bits(prev.r, n[i], d, 0)} }) :
                           prev \in {u128_div_words(n, d, i + 1)} } : TRUE

\* u128 / u128 for a divisor d > 0: the floor of the quotient
u128_div(n, d) ==
    Only({ u128_div_words(nv, dv, 1).q : nv \in {n}, dv \in {d} })

\* a <= b on u128
u128_le(a, b) == GreaterEq(b, a)

\* no test of the price at all
price_unchecked(obs) == TRUE

\* the test applied to the confidence instead of the price
conf_nonzero(obs) == ~IsZero(obs.conf)

\* line 25: p.price != 0
price_nonzero(obs) == ~IsZero(obs.price)

\* abs_price > 1
u128_gt_one(x) == Less(ToWords(1, Len(x)), x)

\* abs_price > 0 (line 27)
u128_gt_zero(x) == ~IsZero(x)

\* line 26: let abs_price: u128 = p.price.unsigned_abs() as u128
abs_price_of(price) == u128_from(unsigned_abs(price))

\* line 29: (u128::from(p.conf) * 10_000) / abs_price, with the carry the
\* multiplication leaves (0 unless the product does not fit 128 bits)
conf_ratio_bps_of(conf, abs) ==
    LET m == u128_mul(u128_from(conf), 10000)
    IN  [val |-> u128_div(m.val, abs), carry |-> m.carry]

\* the cap taken as exclusive
within_cap_exclusive(ratio) ==
    Less(ratio, u128_from(ToWords(MAX_CONF_RATIO_BPS, 4)))

\* line 31: conf_ratio_bps <= u128::from(MAX_CONF_RATIO_BPS)
within_cap(ratio) == u128_le(ratio, u128_from(ToWords(MAX_CONF_RATIO_BPS, 4)))

\* lines 25-34 as a function of the fetched price and confidence: the
\* results the two checks can give, "Ok" when both pass; a product that
\* does not fit gives a panic or the result for the wrapped product
read_price_checks(price, conf) ==
    IF ~price_nonzero([price |-> price, conf |-> conf])
    THEN {"ZeroPrice"}
    ELSE UNION { IF u128_gt_zero(abs)
                 THEN UNION { (IF r.carry # 0 THEN {"Panic"} ELSE {}) \cup
                              {IF within_cap(r.val)
                               THEN "Ok" ELSE "WideConfidence"} :
                                r \in {conf_ratio_bps_of(conf, abs)} }
                 ELSE {"Ok"} :
                   abs \in {abs_price_of(price)} }

(***************************************************************************)
(* Formatting of the log line (lib.rs lines 37-43): `{}` prints an         *)
(* integer in decimal, a negative one with a leading minus sign.           *)
(***************************************************************************)
Digit == << "0", "1", "2", "3", "4", "5", "6", "7", "8", "9" >>

\* the four decimal digits of v < 10000, leading zeros included
Digits4(v) ==
    << Digit[(v \div 1000) + 1], Digit[((v \div 100) % 10) + 1],
       Digit[((v \div 10) % 10) + 1], Digit[(v % 10) + 1] >>

RECURSIVE fmt_digits(_)
\* the decimal digits of x, four at a time from the least significant,
\* padded with zeros on the left to a multiple of four
fmt_digits(x) ==
    IF IsZero(x)
    THEN << >>
    ELSE CHOOSE ds \in { fmt_digits(d.q) \o Digits4(d.r) :
                           d \in {DivSmall(x, 10000, 0)} } : TRUE

\* s without its leading zeros
StripZeros(s) ==
    LET first == CHOOSE i \in 1..Len(s) :
                     s[i] # "0" /\ \A j \in 1..(i - 1) : s[j] = "0"
    IN  SubSeq(s, first, Len(s))

\* Display for u64
fmt_u64(x) ==
    Only({ IF IsZero(v) THEN << "0" >> ELSE StripZeros(fmt_digits(v)) :
             v \in {x} })

\* Display for i64
fmt_i64(x) ==
    IF is_negative(x) THEN << "-" >> \o fmt_u64(unsigned_abs(x)) ELSE fmt_u64(x)

\* Display for the exponent (i32) and the publish time (i64), which the
\* model keeps as plain integers
fmt_int(n) ==
    IF n < 0 THEN << "-" >> \o fmt_u64(ToWords(-n, 4)) ELSE fmt_u64(ToWords(n, 4))

\* the line with the magnitude of the price in place of the price
log_line_abs(obs) ==
    << "price=" >> \o fmt_u64(unsigned_abs(obs.price))
        \o << ", conf=" >> \o fmt_u64(obs.conf)
        \o << ", exponent=" >> \o fmt_int(obs.exponent)
        \o << ", t=" >> \o fmt_int(obs.publish_time)

\* msg!("price={}, conf={}, exponent={}, t={}", ...)
log_line(obs) ==
    << "price=" >> \o fmt_i64(obs.price)
        \o << ", conf=" >> \o fmt_u64(obs.conf)
        \o << ", exponent=" >> \o fmt_int(obs.exponent)
        \o << ", t=" >> \o fmt_int(obs.publish_time)

(***************************************************************************)
(* The receiver SDK, as read_price relies on it (lib.rs lines 16 and 20).  *)
(***************************************************************************)
HexLower ==
    << "0", "1", "2", "3", "4", "5", "6", "7",
       "8", "9", "a", "b", "c", "d", "e", "f" >>

HexUpper ==
    << "0", "1", "2", "3", "4", "5", "6", "7",
       "8", "9", "A", "B", "C", "D", "E", "F" >>

IsHexDigit(c) == \E v \in 1..16 : c = HexLower[v] \/ c = HexUpper[v]

HexVal(c) == (CHOOSE v \in 1..16 : c = HexLower[v] \/ c = HexUpper[v]) - 1

\* get_feed_id_from_hex: 64 hex digits, after a two-character prefix when
\* the string has 66 characters, give the 32 bytes of the feed id
get_feed_id_from_hex(s) ==
    LET body == IF Len(s) = 66 THEN SubSeq(s, 3, 66) ELSE s
    IN  IF Len(body) = 64 /\ \A i \in 1..64 : IsHexDigit(body[i])
        THEN [ok |-> TRUE,
              id |-> [i \in 1..32 |->
                         16 * HexVal(body[2 * i - 1]) + HexVal(body[2 * i])]]
        ELSE [ok |-> FALSE, id |-> << >>]

\* get_price_no_older_than: the account's observation when it is for the
\* feed asked for and was published at most maximum_age seconds ago
get_price_no_older_than(account, now, maximum_age, id) ==
    IF account.feed_id = id /\ account.publish_time + maximum_age >= now
    THEN [ok |-> TRUE,
          price |-> [price        |-> account.price,
                     conf         |-> account.conf,
                     exponent     |-> account.exponent,
                     publish_time |-> account.publish_time]]
    ELSE [ok |-> FALSE, price |-> << >>]

(***************************************************************************)
(* The inputs of a call: the configured feed id string, the price-update   *)
(* account passed in, and the cluster clock.                               *)
(***************************************************************************)
I64_MAX == << 65535, 65535, 65535, 32767 >>

I64_MIN == << 0, 0, 0, 32768 >>

U64_MAX == << 65535, 65535, 65535, 65535 >>

\* 185389777940780993 and 185389777940780994: the largest confidence the cap
\* accepts for the price 2^63 - 1, and the smallest it rejects
ConfAtCapOfMax == << 6081, 21286, 41733, 658 >>

ConfOverCapOfMax == << 6082, 21286, 41733, 658 >>

I64(n) == IF n < 0 THEN wrapping_neg(ToWords(-n, 4)) ELSE ToWords(n, 4)

Prices ==
    {I64(n) : n \in -MaxSmall..MaxSmall}
        \cup {I64(n) : n \in {-1000, -100, -50, -49, 49, 50, 100, 1000}}
        \cup {I64_MAX, I64_MIN, wrapping_neg(I64_MAX)}

Confs ==
    {ToWords(n, 4) : n \in 0..MaxSmall}
        \cup {ToWords(n, 4) : n \in {3, 10, 20, 21}}
        \cup {ConfAtCapOfMax, ConfOverCapOfMax, U64_MAX}

Exponents == {-8, 2}

\* the cluster time of the call, and publish times around the freshness
\* threshold: one second too old, exactly MAX_AGE_SECS old, current, ahead
ClockTimes == {1700000000}

PublishTimes ==
    UNION { {now - MAX_AGE_SECS - 1, now - MAX_AGE_SECS, now, now + 5} :
              now \in ClockTimes }

OtherFeedId == Zeros(32)

FeedIds == {get_feed_id_from_hex(FEED_ID_HEX).id, OtherFeedId}

\* the configured string, and two malformed ones: one character short, and
\* with a character that is no hex digit
FeedIdStrings ==
    {FEED_ID_HEX, SubSeq(FEED_ID_HEX, 1, 65), [FEED_ID_HEX EXCEPT ![3] = "g"]}

Accounts ==
    [feed_id : FeedIds, price : Prices, conf : Confs,
     exponent : Exponents, publish_time : PublishTimes]

(***************************************************************************)
(* State.                                                                  *)
(***************************************************************************)
VARIABLES
    feed_id_hex,     \* the feed id string the program is built with
    price_update,    \* ctx.accounts.price_update
    clock,           \* Clock::get()?.unix_timestamp
    pc,              \* the statement read_price is about to execute
    feed_id,         \* let feed_id (<< >> before it is bound)
    p,               \* let p, as << the Price >> (<< >> before it is bound)
    abs_price,       \* let abs_price (<< >> before it is bound)
    conf_ratio_bps,  \* let conf_ratio_bps (<< >> before it is bound)
    result,          \* what the call returned ("running" until it returns)
    log,             \* the program log: the lines msg! emitted
    steps,           \* history: the statements executed so far
    mul_carry        \* history: the carry out of the u128 multiplication

vars ==
    << feed_id_hex, price_update, clock, pc, feed_id, p, abs_price,
       conf_ratio_bps, result, log, steps, mul_carry >>

Init ==
    /\ feed_id_hex \in FeedIdStrings
    /\ price_update \in Accounts
    /\ clock \in ClockTimes
    /\ pc = "decode"
    /\ feed_id = << >>
    /\ p = << >>
    /\ abs_price = << >>
    /\ conf_ratio_bps = << >>
    /\ result = "running"
    /\ log = << >>
    /\ steps = << >>
    /\ mul_carry = 0

\* return Err(e): nothing further of the handler runs
Fail(e) ==
    /\ result' = e
    /\ pc' = "done"

(***************************************************************************)
(* read_price, statement by statement.                                     *)
(***************************************************************************)
\* lines 16-17
Decode ==
    /\ pc = "decode"
    /\ steps' = Append(steps, "decode")
    /\ \E r \in {get_feed_id_from_hex(feed_id_hex)} :
         IF r.ok
         THEN /\ feed_id' = r.id
              /\ pc' = "fetch"
              /\ UNCHANGED result
         ELSE /\ Fail("BadFeedId")
              /\ UNCHANGED feed_id
    /\ UNCHANGED << feed_id_hex, price_update, clock, p, abs_price,
                    conf_ratio_bps, log, mul_carry >>

\* the fetch with the log line written as soon as a price is there
FetchLogging ==
    /\ pc = "fetch"
    /\ steps' = Append(steps, "fetch")
    /\ log' = Append(log, log_line(price_update))
    /\ \E r \in {get_price_no_older_than(price_update, clock,
                                         MAX_AGE_SECS, feed_id)} :
         IF r.ok
         THEN /\ p' = << r.price >>
              /\ pc' = "zero_check"
              /\ UNCHANGED result
         ELSE /\ Fail("StaleOrMissingPrice")
              /\ UNCHANGED p
    /\ UNCHANGED << feed_id_hex, price_update, clock, feed_id, abs_price,
                    conf_ratio_bps, mul_carry >>

\* the fetch with the zero test of the price ahead of the age test
FetchZeroFirst ==
    /\ pc = "fetch"
    /\ steps' = Append(steps, "fetch")
    /\ \E r \in {get_price_no_older_than(price_update, clock,
                                         MAX_AGE_SECS, feed_id)} :
         IF IsZero(price_update.price)
         THEN /\ Fail("ZeroPrice")
              /\ UNCHANGED p
         ELSE IF r.ok
         THEN /\ p' = << r.price >>
              /\ pc' = "zero_check"
              /\ UNCHANGED result
         ELSE /\ Fail("StaleOrMissingPrice")
              /\ UNCHANGED p
    /\ UNCHANGED << feed_id_hex, price_update, clock, feed_id, abs_price,
                    conf_ratio_bps, log, mul_carry >>

\* lines 20-22
Fetch ==
    /\ pc = "fetch"
    /\ steps' = Append(steps, "fetch")
    /\ \E r \in {get_price_no_older_than(price_update, clock,
                                         MAX_AGE_SECS, feed_id)} :
         IF r.ok
         THEN /\ p' = << r.price >>
              /\ pc' = "zero_check"
              /\ UNCHANGED result
         ELSE /\ Fail("StaleOrMissingPrice")
              /\ UNCHANGED p
    /\ UNCHANGED << feed_id_hex, price_update, clock, feed_id, abs_price,
                    conf_ratio_bps, log, mul_carry >>

\* line 25
ZeroCheck ==
    /\ pc = "zero_check"
    /\ steps' = Append(steps, "zero_check")
    /\ IF price_nonzero(p[1])
       THEN /\ pc' = "conf_check"
            /\ UNCHANGED result
       ELSE Fail("ZeroPrice")
    /\ UNCHANGED << feed_id_hex, price_update, clock, feed_id, p, abs_price,
                    conf_ratio_bps, log, mul_carry >>

\* lines 26-34; the multiplication panics when it overflows in a build with
\* overflow checks and wraps in one without
ConfCheck ==
    /\ pc = "conf_check"
    /\ \E abs \in {abs_price_of(p[1].price)} :
         /\ abs_price' = abs
         /\ IF u128_gt_zero(abs)
            THEN \E r \in {conf_ratio_bps_of(p[1].conf, abs)} :
                   /\ steps' = Append(steps, "conf_check")
                   /\ mul_carry' = r.carry
                   /\ \E overflow_checks \in BOOLEAN :
                        IF r.carry # 0 /\ overflow_checks
                        THEN /\ Fail("Panic")
                             /\ UNCHANGED conf_ratio_bps
                        ELSE /\ conf_ratio_bps' = r.val
                             /\ IF within_cap(r.val)
                                THEN /\ pc' = "log"
                                     /\ UNCHANGED result
                                ELSE Fail("WideConfidence")
            ELSE /\ pc' = "log"
                 /\ UNCHANGED << steps, mul_carry, conf_ratio_bps, result >>
    /\ UNCHANGED << feed_id_hex, price_update, clock, feed_id, p, log >>

\* lines 37-45
Log ==
    /\ pc = "log"
    /\ steps' = Append(steps, "log")
    /\ log' = Append(log, log_line(p[1]))
    /\ result' = "Ok"
    /\ pc' = "done"
    /\ UNCHANGED << feed_id_hex, price_update, clock, feed_id, p, abs_price,
                    conf_ratio_bps, mul_carry >>

Next == Decode \/ Fetch \/ ZeroCheck \/ ConfCheck \/ Log

Spec == Init /\ [][Next]_vars

(***************************************************************************)
(* Natural numbers without a width, for stating the properties: word       *)
(* sequences of any length, least significant word first. The multipliers  *)
(* of NatMulSmall are below 2^15, so that no product of TLC overflows.     *)
(***************************************************************************)
NatPad(x, n) == x \o Zeros(n - Len(x))

NatLess(a, b) ==
    LET n == IF Len(a) > Len(b) THEN Len(a) ELSE Len(b)
    IN  \E A \in {NatPad(a, n)}, B \in {NatPad(b, n)} :
          \E i \in 1..n : A[i] < B[i] /\ \A j \in (i + 1)..n : A[j] = B[j]

NatEq(a, b) == ~NatLess(a, b) /\ ~NatLess(b, a)

RECURSIVE NatMulCarry(_, _, _)
\* the carry out of word i of x * k
NatMulCarry(x, k, i) ==
    IF i = 0 THEN 0 ELSE (x[i] * k + NatMulCarry(x, k, i - 1)) \div 65536

\* x * k, one word longer than x
NatMulSmall(x, k) ==
    Only({ SubSeq([i \in 1..(Len(v) + 1) |->
                      IF i <= Len(v)
                      THEN (v[i] * k + NatMulCarry(v, k, i - 1)) % 65536
                      ELSE NatMulCarry(v, k, Len(v))], 1, Len(v) + 1) :
             v \in {x} })

RECURSIVE NatAddCarry(_, _, _)
\* the carry out of word i of a + b
NatAddCarry(a, b, i) ==
    IF i = 0 THEN 0 ELSE (a[i] + b[i] + NatAddCarry(a, b, i - 1)) \div 65536

\* a + b, one word longer than the longer of the two
NatAdd(a, b) ==
    LET n == IF Len(a) > Len(b) THEN Len(a) ELSE Len(b)
    IN  Only({ SubSeq([i \in 1..(n + 1) |->
                          IF i <= n
                          THEN (A[i] + B[i] + NatAddCarry(A, B, i - 1)) % 65536
                          ELSE NatAddCarry(A, B, n)], 1, n + 1) :
                 A \in {NatPad(a, n)}, B \in {NatPad(b, n)} })

\* a * w for a word w, through its two bytes
NatMulWord(a, w) ==
    NatAdd(NatMulSmall(NatMulSmall(a, w \div 256), 256), NatMulSmall(a, w % 256))

RECURSIVE NatMul(_, _)
\* a * b
NatMul(a, b) ==
    IF Len(b) = 0
    THEN << >>
    ELSE CHOOSE v \in { NatAdd(NatMulWord(a, Head(b)), << 0 >> \o rest) :
                          rest \in {NatMul(a, Tail(b))} } : TRUE

TwoPow64 == << 0, 0, 0, 0, 1 >>

\* m = |x| for the i64 x: x itself when its sign bit is clear, and the m
\* with x + m = 2^64 for the two's complement pattern x of a negative number
IsMagnitude(x, m) ==
    IF x[4] >= 32768 THEN NatEq(NatAdd(x, m), TwoPow64) ELSE NatEq(x, m)

\* a and b are the i64 patterns of n and -n
IsNegationOf(a, b) ==
    \/ IsZero(a) /\ IsZero(b)
    \/ /\ (a[4] >= 32768) # (b[4] >= 32768)
       /\ NatEq(NatAdd(a, b), TwoPow64)

\* floor(conf * 10000 / m) > cap, that is conf * 10000 >= (cap + 1) * m
RatioAbove(conf, m, cap) ==
    ~NatLess(NatMulSmall(conf, 10000), NatMulSmall(m, cap + 1))

\* q = floor(n / d), that is q * d <= n < q * d + d
IsFloor(q, n, d) ==
    \E qd \in {NatMul(q, d)} : ~NatLess(n, qd) /\ NatLess(n, NatAdd(qd, d))

Fetched == p # << >>

Returned == pc = "done"

\* floor(conf * 10000 / |x|) > cap for the i64 pattern x, by way of
\* |x| = 2^64 - x for a negative x:
\* conf * 10000 + (cap + 1) * x >= (cap + 1) * 2^64
RatioAboveSigned(conf, x, cap) ==
    IF x[4] >= 32768
    THEN ~NatLess(NatAdd(NatMulSmall(conf, 10000), NatMulSmall(x, cap + 1)),
                  NatMulSmall(TwoPow64, cap + 1))
    ELSE RatioAbove(conf, x, cap)

HexChars ==
    { "0", "1", "2", "3", "4", "5", "6", "7", "8", "9",
      "a", "b", "c", "d", "e", "f", "A", "B", "C", "D", "E", "F" }

\* s is 64 hex digits, with or without a leading 0x
Decodable(s) ==
    \/ Len(s) = 64 /\ \A i \in 1..64 : s[i] \in HexChars
    \/ /\ Len(s) = 66
       /\ s[1] = "0"
       /\ s[2] \in {"x", "X"}
       /\ \A i \in 3..66 : s[i] \in HexChars

StepOrder == << "decode", "fetch", "zero_check", "conf_check", "log" >>

Ran(step) == \E i \in 1..Len(steps) : steps[i] = step

DecimalDigits == << "0", "1", "2", "3", "4", "5", "6", "7", "8", "9" >>

IsDecimal(ds) ==
    /\ Len(ds) \in 1..20
    /\ \A i \in 1..Len(ds) : \E d \in 1..10 : ds[i] = DecimalDigits[d]

DigitValue(c) == (CHOOSE d \in 1..10 : DecimalDigits[d] = c) - 1

RECURSIVE ParseNat(_)
\* the number a string of at most 20 decimal digits denotes, in five words
ParseNat(ds) ==
    IF Len(ds) = 0
    THEN Zeros(5)
    ELSE CHOOSE v \in
           { SubSeq(NatAdd(NatMulSmall(prev, 10),
                           << DigitValue(ds[Len(ds)]) >>), 1, 5) :
               prev \in {ParseNat(SubSeq(ds, 1, Len(ds) - 1))} } : TRUE

RECURSIVE ParseSmall(_)
\* the same for a number that fits an integer of the model
ParseSmall(ds) ==
    IF Len(ds) = 0
    THEN 0
    ELSE 10 * ParseSmall(SubSeq(ds, 1, Len(ds) - 1)) + DigitValue(ds[Len(ds)])

HasSign(txt) == Len(txt) > 0 /\ txt[1] = "-"

Unsigned(txt) == IF HasSign(txt) THEN Tail(txt) ELSE txt

\* txt is the decimal numeral of the i64 pattern x
ShowsI64(txt, x) ==
    /\ IsDecimal(Unsigned(txt))
    /\ HasSign(txt) <=> x[4] >= 32768
    /\ IsMagnitude(x, ParseNat(Unsigned(txt)))

\* txt is the decimal numeral of the u64 x
ShowsU64(txt, x) == IsDecimal(txt) /\ NatEq(x, ParseNat(txt))

\* txt is the decimal numeral of the integer n
ShowsInt(txt, n) ==
    /\ IsDecimal(Unsigned(txt))
    /\ HasSign(txt) <=> n < 0
    /\ n = (IF HasSign(txt) THEN -1 ELSE 1) * ParseSmall(Unsigned(txt))

Position(line, tok) == CHOOSE i \in 1..Len(line) : line[i] = tok

\* line is "price=<price>, conf=<conf>, exponent=<exponent>, t=<t>" with the
\* four numerals of obs
ShowsObservation(line, obs) ==
    /\ \A tok \in {"price=", ", conf=", ", exponent=", ", t="} :
          Cardinality({i \in 1..Len(line) : line[i] = tok}) = 1
    /\ \E c \in {Position(line, ", conf=")},
          e \in {Position(line, ", exponent=")},
          t \in {Position(line, ", t=")} :
          /\ line[1] = "price="
          /\ c < e
          /\ e < t
          /\ ShowsI64(SubSeq(line, 2, c - 1), obs.price)
          /\ ShowsU64(SubSeq(line, c + 1, e - 1), obs.conf)
          /\ ShowsInt(SubSeq(line, e + 1, t - 1), obs.exponent)
          /\ ShowsInt(SubSeq(line, t + 1, Len(line)), obs.publish_time)

\* the account holds the feed feed_id and was published no more than 60
\* seconds before the clock's time
FreshAndPresent ==
    /\ price_update.feed_id = feed_id
    /\ ~(price_update.publish_time + 60 < clock)

(***************************************************************************)
(* Properties.                                                             *)
(***************************************************************************)
\* C1: for a fetched observation with price != 0, read_price returns
\* WideConfidence exactly when floor(conf * 10000 / |price|) > 200 and Ok
\* otherwise; price 1000 with confidence 10 succeeds and price -100 with
\* confidence 3 fails with WideConfidence.
C1_WideConfidenceIffRatioAboveCap ==
    (Returned /\ Fetched /\ ~IsZero(p[1].price)) =>
        /\ IsMagnitude(p[1].price, abs_price)
        /\ result \in {"Ok", "WideConfidence"}
        /\ (result = "WideConfidence") <=> RatioAbove(p[1].conf, abs_price, 200)
        /\ (p[1].price = << 1000, 0, 0, 0 >> /\ p[1].conf = << 10, 0, 0, 0 >>)
              => result = "Ok"
        /\ (p[1].price = << 65436, 65535, 65535, 65535 >>
              /\ p[1].conf = << 3, 0, 0, 0 >>)
              => result = "WideConfidence"

\* a call that succeeded with a ratio of exactly 200 bps
C1_Witness ==
    /\ Returned
    /\ result = "Ok"
    /\ conf_ratio_bps = << 200, 0, 0, 0, 0, 0, 0, 0 >>

\* C2: a fetched observation with price = 0 makes read_price return
\* ZeroPrice, whatever its confidence, exponent and publish time; the call
\* never succeeds and never returns WideConfidence for it.
C2_ZeroPriceRejected ==
    (Returned /\ Fetched /\ p[1].price = << 0, 0, 0, 0 >>) =>
        /\ result = "ZeroPrice"
        /\ log = << >>

\* a zero price with the largest confidence was rejected
C2_Witness ==
    /\ Returned
    /\ Fetched
    /\ p[1].price = << 0, 0, 0, 0 >>
    /\ p[1].conf = U64_MAX
    /\ result = "ZeroPrice"

\* C7: a fetched observation with price != 0 and confidence 0 passes the
\* confidence check and read_price succeeds, for positive and negative
\* prices, the minimum i64 included.
C7_ZeroConfidenceAccepted ==
    (Returned /\ Fetched /\ p[1].price # << 0, 0, 0, 0 >>
        /\ p[1].conf = << 0, 0, 0, 0 >>) =>
        /\ result = "Ok"
        /\ conf_ratio_bps = << 0, 0, 0, 0, 0, 0, 0, 0 >>

\* the minimum i64 with confidence 0 was accepted
C7_Witness ==
    /\ Returned
    /\ Fetched
    /\ p[1].price = I64_MIN
    /\ p[1].conf = << 0, 0, 0, 0 >>
    /\ result = "Ok"

\* C3: the confidence ratio never wraps: for every i64 price, -(2^63)
\* included, and every u64 confidence, 2^64 - 1 included, the product
\* conf * 10000 fits 128 bits (no carry, no panic) and the value compared
\* with the cap is the mathematical floor(conf * 10000 / |price|).
C3_RatioNeverWraps ==
    (abs_price # << >>) =>
        /\ mul_carry = 0
        /\ result # "Panic"
        /\ Len(abs_price) = 8
        /\ Len(conf_ratio_bps) = 8
        /\ IsMagnitude(p[1].price, abs_price)
        /\ IsFloor(conf_ratio_bps, NatMulSmall(p[1].conf, 10000), abs_price)

\* the ratio was computed for the minimum i64 and the largest confidence
C3_Witness ==
    /\ conf_ratio_bps # << >>
    /\ p[1].price = I64_MIN
    /\ p[1].conf = U64_MAX

\* C4: when the account's observation is older than 60 seconds or is not
\* one of the wanted feed, read_price fails at the fetch with
\* StaleOrMissingPrice: neither the zero test nor the confidence test runs.
\* An observation of the feed that is 60 seconds old or younger is fetched.
C4_StaleOrMissingFailsAtFetch ==
    (Returned /\ Ran("fetch")) =>
        IF FreshAndPresent
        THEN result # "StaleOrMissingPrice" /\ Fetched
        ELSE /\ result = "StaleOrMissingPrice"
             /\ steps = << "decode", "fetch" >>
             /\ ~Fetched
             /\ abs_price = << >>
             /\ conf_ratio_bps = << >>
             /\ log = << >>

\* an observation 61 seconds old was refused
C4_Witness ==
    /\ Returned
    /\ result = "StaleOrMissingPrice"
    /\ price_update.feed_id = feed_id
    /\ price_update.publish_time + 61 = clock

\* C5: the log holds a line exactly when read_price succeeded: a failed
\* call leaves no line, a successful one leaves exactly one, written after
\* all the checks; no step changes the account, the clock or the feed id.
C5_LogIffSuccess ==
    /\ [](log # << >> <=> result = "Ok")
    /\ [](Len(log) <= 1)
    /\ [](result = "Ok" => Returned /\ steps = StepOrder /\ Len(log) = 1)
    /\ [][/\ price_update' = price_update
          /\ clock' = clock
          /\ feed_id_hex' = feed_id_hex
          /\ log' # log => (pc = "log" /\ result' = "Ok")]_vars

\* a call that succeeded, with its one line
C5_Witness ==
    /\ Returned
    /\ result = "Ok"
    /\ Len(log) = 1
    /\ steps[Len(steps)] = "log"

\* C6: the steps run in the order decode, fetch, zero test, confidence test,
\* log, and the first one that fails gives the error: an undecodable feed id
\* gives BadFeedId with no fetch, a stale or missing observation gives
\* StaleOrMissingPrice even with a price of 0, a fresh price of 0 gives
\* ZeroPrice whatever the confidence.
C6_FirstFailingStepDecides ==
    /\ steps = SubSeq(StepOrder, 1, Len(steps))
    /\ Returned =>
         IF ~Decodable(feed_id_hex)
         THEN result = "BadFeedId" /\ steps = << "decode" >>
         ELSE IF ~FreshAndPresent
         THEN result = "StaleOrMissingPrice" /\ Len(steps) = 2
         ELSE IF IsZero(price_update.price)
         THEN result = "ZeroPrice" /\ Len(steps) = 3
         ELSE IF RatioAboveSigned(price_update.conf, price_update.price, 200)
         THEN result = "WideConfidence" /\ Len(steps) = 4
         ELSE result = "Ok" /\ Len(steps) = 5

\* a stale observation with a price of 0 was refused as stale
C6_Witness ==
    /\ Returned
    /\ result = "StaleOrMissingPrice"
    /\ IsZero(price_update.price)
    /\ price_update.feed_id = feed_id
    /\ price_update.publish_time + 60 < clock

\* C8: a negative price is not refused for its sign: the checks give the
\* same result for a price and its negation, and for a fetched observation
\* the only errors are ZeroPrice and WideConfidence.
C8_SignDoesNotMatter ==
    (Returned /\ Fetched) =>
        /\ result \in {"Ok", "ZeroPrice", "WideConfidence"}
        /\ ~IsZero(p[1].price) => result # "ZeroPrice"
        /\ \A q \in Prices :
              IsNegationOf(q, p[1].price)
                  => read_price_checks(q, p[1].conf) = {result}

\* a negative price was accepted, and its negation is among the prices
C8_Witness ==
    /\ Returned
    /\ Fetched
    /\ p[1].price = << 65436, 65535, 65535, 65535 >>
    /\ result = "Ok"
    /\ \E q \in Prices : q = << 100, 0, 0, 0 >>

\* C9: on success the one log line carries the price, the confidence, the
\* exponent and the publish time of the fetched observation as they were
\* fetched, not scaled; the exponent and the publish time have no part
\* in the result once the observation is fetched.
C9_LogCarriesRawObservation ==
    /\ (Returned /\ result = "Ok") =>
         /\ Len(log) = 1
         /\ ShowsObservation(log[1], p[1])
    /\ (Returned /\ Fetched) =>
         read_price_checks(p[1].price, p[1].conf) = {result}

\* a negative price with a negative exponent was logged
C9_Witness ==
    /\ Returned
    /\ result = "Ok"
    /\ p[1].price = << 65436, 65535, 65535, 65535 >>
    /\ p[1].exponent = -8
    /\ Len(log) = 1

\* C10: where `if abs_price > 0` is evaluated abs_price is at least 1: the
\* branch is always taken, the division has no zero divisor, the
\* confidence test is never skipped, and every success has a ratio of at
\* most 200.
C10_ConfidenceCheckNeverSkipped ==
    /\ abs_price # << >> => (~IsZero(abs_price) /\ Ran("conf_check"))
    /\ (pc = "log" \/ result = "Ok") =>
          /\ Ran("conf_check")
          /\ IsMagnitude(p[1].price, abs_price)
          /\ ~RatioAbove(p[1].conf, abs_price, 200)

\* a success for a price of magnitude 1, the smallest divisor
C10_Witness ==
    /\ result = "Ok"
    /\ Ran("conf_check")
    /\ abs_price = << 1, 0, 0, 0, 0, 0, 0, 0 >>

====
